---------------------------- MODULE Spec2Model ----------------------------
(***************************************************************************)
(* CsvToMongoDB (Tool/data_store.py): streaming of the rows of a CSV file  *)
(* into a MongoDB collection with an optional field projection and         *)
(* buffered bulk writes.                                                    *)
(*                                                                         *)
(* Conventions.  Python lists are sequences; list indices are kept         *)
(* 0-based as in the code (At0 reads position i of a list).  A dict is the *)
(* sequence of its <<key, value>> items in insertion order.  A cell of the *)
(* CSV file is a text; texts of data cells are modelled by naturals, 0     *)
(* being the empty string.  An exception is a record: its type, the field  *)
(* names its message mentions and the row numbers its message mentions.    *)
(***************************************************************************)
EXTENDS Integers, Sequences, FiniteSets, TLC

\* ------------------------------------------------------------------ bounds
MaxRows == 3          \* data rows read in one life of the object
MaxBufferSize == 2    \* largest explicit buffer_size argument

\* ------------------------------------------------------- program constants
DefaultBufferSize == 10000       \* insert_data(col_name, buffer_size=10000)

\* ------------------------------------------------------------------ inputs
\* csv_path.keys() in insertion order, as given to __init__
CollectionOrder == <<"c1", "c2">>
Registered == {CollectionOrder[i] : i \in DOMAIN CollectionOrder}
\* names a caller may pass as col_name
ColNames == Registered \cup {"zz"}
\* first records of the CSV files
Headers == {<<>>, <<"a", "b">>, <<"a", "b", "c">>, <<"b", "b">>}
\* arguments of set_fields (None and [] are both falsy: <<>>)
FieldLists == {<<>>, <<"b", "a">>, <<"a", "a">>, <<"b">>, <<"c", "d">>}

None == "None"
NoError == [type |-> "none", fields |-> {}, rows |-> {}]
Exc(t, f, r) == [type |-> t, fields |-> f, rows |-> r]

VARIABLES
    target_col_name,    \* self.target_col_name
    target_col_object,  \* self.target_col_object: the name of the collection the handle is of, or None
    db_check,           \* self.db_check
    selected_fields,    \* self.selected_fields
    removed_fields,     \* self.removed_fields
    store,              \* the database: collection name -> documents it holds
    pc,                 \* position inside insert_data, "idle" outside
    auto,               \* collections auto_insert has still to ingest
    col_name,           \* insert_data: argument
    buffer_size,        \* insert_data: argument
    origin_header,      \* insert_data: the first record as read (line 128)
    header,             \* insert_data: local header
    field_allowed,      \* insert_data: local field_allowed
    buffer,             \* insert_data: local buffer
    counter,            \* insert_data: local counter
    source,             \* data rows read from the file by this run, in order
    docs,               \* documents built by this run, in order
    batches,            \* bulk_write calls issued by this run, in order (failed ones included)
    drops,              \* collections dropped by this run, in order
    error,              \* exception raised by the last call, NoError if it returned
    warned,             \* field names mentioned by logging.warning in this run
    runs,               \* insert_data calls started so far
    rows_before,        \* data rows read by the earlier insert_data calls
    prev_header         \* the first record read by the insert_data call before this one

vars == <<target_col_name, target_col_object, db_check, selected_fields,
          removed_fields, store, pc, auto, col_name, buffer_size,
          origin_header, header, field_allowed, buffer, counter, source,
          docs, batches, drops, error, warned, runs, rows_before, prev_header>>

config == <<db_check, selected_fields, removed_fields>>
target == <<target_col_name, target_col_object>>
locals == <<col_name, buffer_size, origin_header, header, field_allowed,
            buffer, counter, source, docs, batches, drops, warned>>

\* ----------------------------------------------------------- Python lists
At0(s, i) == s[i + 1]
Range0(n) == [k \in 1..n |-> k - 1]
InList(x, s) == \E k \in DOMAIN s : s[k] = x
\* list.index(x): position of the first occurrence; ValueError when absent
ListIndex(s, x) == (CHOOSE k \in DOMAIN s : s[k] = x /\ \A j \in 1..(k - 1) : s[j] # x) - 1


\* a dict built by inserting the items in order: a key seen again keeps its
\* place and takes the new value
DictSet(d, k, v) ==
    IF \E i \in DOMAIN d : d[i][1] = k
    THEN [i \in DOMAIN d |-> IF d[i][1] = k THEN <<k, v>> ELSE d[i]]
    ELSE Append(d, <<k, v>>)

RECURSIVE DictItems(_, _, _)
DictItems(keys, vals, n) ==
    IF n = 0 THEN <<>>
    ELSE DictSet(DictItems(keys, vals, n - 1), keys[n], vals[n])

Min(a, b) == IF a <= b THEN a ELSE b

\* dict(zip(keys, vals)); zip stops at the shorter list
DictZip(keys, vals) == DictItems(keys, vals, Min(Len(keys), Len(vals)))

DictKeys(d) == [i \in DOMAIN d |-> d[i][1]]
DictHas(d, k) == \E i \in DOMAIN d : d[i][1] = k
DictGet(d, k) == d[CHOOSE i \in DOMAIN d : d[i][1] = k][2]

\* a collection holds a bag of documents
EmptyBag == [d \in {} |-> 0]
BagAdd(b, d) ==
    IF d \in DOMAIN b THEN [b EXCEPT ![d] = @ + 1]
    ELSE [x \in DOMAIN b \cup {d} |-> IF x = d THEN 1 ELSE b[x]]

RECURSIVE BagAddAll(_, _)
BagAddAll(b, s) == IF s = <<>> THEN b ELSE BagAddAll(BagAdd(b, Head(s)), Tail(s))

RECURSIVE Flatten(_)
Flatten(ss) == IF ss = <<>> THEN <<>> ELSE Head(ss) \o Flatten(Tail(ss))

\* ------------------------------------------------------------- set_fields
\* the exclusivity test left out
SetFieldsRejectsNothing(fields_needed, fields_removed) == FALSE

\* line 98: both arguments truthy
SetFieldsRejects(fields_needed, fields_removed) ==
    fields_needed # <<>> /\ fields_removed # <<>>

\* ------------------------------------------- insert_data: field projection
\* the projection list the run resolves: selected_fields when it is truthy,
\* else removed_fields (lines 131, 135)
ActiveFields(sel, rem) == IF sel # <<>> THEN sel ELSE rem

Missing(h, names) == {k \in DOMAIN names : ~InList(names[k], h)}
FirstMissing(h, names) ==
    names[CHOOSE k \in Missing(h, names) : \A j \in Missing(h, names) : k <= j]

\* lines 130-137: header.index raises ValueError.  The include loop looks
\* every name up; the exclude comprehension evaluates its inner list once
\* per element of field_allowed, so not at all when the header is empty.
FieldMissing(h, sel, rem) ==
    IF sel # <<>> THEN Missing(h, sel) # {}
    ELSE IF rem # <<>> THEN Len(h) > 0 /\ Missing(h, rem) # {}
    ELSE FALSE

\* line 138: logging.warning(e), e being "'<name>' is not in list"
FieldWarning(h, sel, rem) == {FirstMissing(h, ActiveFields(sel, rem))}

\* the error made to name every field the header lacks
FieldErrorNaming(h, sel, rem) ==
    Exc("ValueError", {ActiveFields(sel, rem)[k] : k \in Missing(h, ActiveFields(sel, rem))}, {})

\* line 139: raise ValueError(<fixed text: the given field does not exist>)
FieldError(h, sel, rem) == Exc("ValueError", {}, {})

\* the kept columns taken in header order instead of the order of the list
IncludeIndicesHeaderOrder(h, sel) ==
    LET Kept(i) == InList(At0(h, i), sel)
    IN SelectSeq(Range0(Len(h)), Kept)

\* lines 132-134
IncludeIndices(h, sel) == [k \in DOMAIN sel |-> ListIndex(h, sel[k])]

\* only the first name of the list removed
ExcludeIndicesFirstOnly(h, rem) ==
    LET Keep(i) == i # ListIndex(h, rem[1])
    IN SelectSeq(Range0(Len(h)), Keep)

\* line 136
ExcludeIndices(h, rem) ==
    LET removed == {ListIndex(h, rem[k]) : k \in DOMAIN rem}
        Keep(i) == i \notin removed
    IN SelectSeq(Range0(Len(h)), Keep)

\* lines 129-136, when no ValueError is raised
ResolveIndices(h, sel, rem) ==
    IF sel # <<>> THEN IncludeIndices(h, sel)
    ELSE IF rem # <<>> /\ Len(h) > 0 THEN ExcludeIndices(h, rem)
    ELSE Range0(Len(h))

\* line 140
ProjectHeader(h, fa) == [k \in DOMAIN fa |-> At0(h, fa[k])]

\* --------------------------------------------- insert_data: row transform
\* a row longer than the projection refused as well
RowFitsExactly(row, fa) == Len(row) <= Len(fa) /\ \A k \in DOMAIN fa : fa[k] < Len(row)

\* line 146: row[i] raises IndexError when i is past the end of the row
RowFits(row, fa) == \A k \in DOMAIN fa : fa[k] < Len(row)
RowValues(row, fa) == [k \in DOMAIN fa |-> At0(row, fa[k])]
\* empty cells left out of the document
TransformSkipEmpty(row, hdr, fa) ==
    LET Filled(item) == item[2] # 0
    IN SelectSeq(DictZip(hdr, RowValues(row, fa)), Filled)

Transform(row, hdr, fa) == DictZip(hdr, RowValues(row, fa))
\* IndexError("list index out of range")
RowError(n) == Exc("IndexError", {}, {})

\* the threshold test off by one: a flush only once the buffer is past its size
BufferFullLate(buf, size) == Len(buf) > size

\* line 148
BufferFull(buf, size) == Len(buf) >= size

\* ------------------------------------------------------------ the CSV file
\* the text of cell j (0-based) of data row n (1-based); 0 is the empty string
Cell(n, j) == IF (n + j) % 3 = 0 THEN 0 ELSE 10 * n + j + 1
Row(n, len) == [k \in 1..len |-> Cell(n, k - 1)]
\* a data row is shorter than the header, as long, or longer
RowLens(h) == {n \in {Len(h) - 1, Len(h), Len(h) + 1} : n >= 0}


\* --------------------------------------------------------------- __init__
\* lines 33-43; db_check is the caller's argument
Init ==
    /\ target_col_name = ""
    /\ target_col_object = None
    /\ db_check \in BOOLEAN
    /\ selected_fields = <<>>
    /\ removed_fields = <<>>
    /\ store = [c \in Registered |-> EmptyBag]
    /\ pc = "idle"
    /\ auto = <<>>
    /\ col_name = ""
    /\ buffer_size = 0
    /\ origin_header = <<>>
    /\ header = <<>>
    /\ field_allowed = <<>>
    /\ buffer = <<>>
    /\ counter = 0
    /\ source = <<>>
    /\ docs = <<>>
    /\ batches = <<>>
    /\ drops = <<>>
    /\ error = NoError
    /\ warned = {}
    /\ runs = 0
    /\ rows_before = 0
    /\ prev_header = <<>>

\* The life of an object: configuration calls, then one ingestion call,
\* insert_data or auto_insert.  No call is in progress and the caller may
\* make one:
CallerIdle == pc = "idle" /\ auto = <<>> /\ runs = 0

\* the exception caught in the loop of auto_insert, which goes on
RaiseAndGoOn(e) ==
    /\ error' = e
    /\ pc' = "idle"
    /\ auto' = auto

\* an exception leaves insert_data, and auto_insert when it is the caller
Raise(e) ==
    /\ error' = e
    /\ pc' = "idle"
    /\ auto' = <<>>

\* ------------------------------------------------------------- set_fields
\* lines 98-106
set_fields(fields_needed, fields_removed) ==
    /\ CallerIdle
    /\ IF SetFieldsRejects(fields_needed, fields_removed)
       THEN /\ error' = Exc("SyntaxError", {}, {})
            /\ UNCHANGED <<selected_fields, removed_fields>>
       ELSE /\ error' = NoError
            /\ IF fields_needed # <<>>
               THEN selected_fields' = fields_needed /\ UNCHANGED removed_fields
               ELSE IF fields_removed # <<>>
               THEN removed_fields' = fields_removed /\ UNCHANGED selected_fields
               ELSE UNCHANGED <<selected_fields, removed_fields>>
    /\ UNCHANGED <<target, db_check, store, pc, auto, locals, runs, rows_before, prev_header>>

\* --------------------------------------------------------- set_target_col
\* lines 60-61: the name is stored before the registry lookup can raise
set_target_col(c) ==
    /\ CallerIdle
    /\ target_col_name' = c
    /\ IF c \in Registered
       THEN target_col_object' = c /\ error' = NoError
       ELSE UNCHANGED target_col_object /\ error' = Exc("KeyError", {}, {})
    /\ UNCHANGED <<config, store, pc, auto, locals, runs, rows_before, prev_header>>

\* ----------------------------------------------------------- assure_empty
\* lines 49-52, called by the user; "" stands for the default argument
assure_empty(c) ==
    /\ CallerIdle
    /\ IF c # ""
       THEN IF c \in Registered
            THEN store' = [store EXCEPT ![c] = EmptyBag] /\ error' = NoError
            ELSE UNCHANGED store /\ error' = Exc("KeyError", {}, {})
       ELSE IF target_col_object # None
            THEN store' = [store EXCEPT ![target_col_object] = EmptyBag] /\ error' = NoError
            ELSE UNCHANGED store /\ error' = Exc("AttributeError", {}, {})
    /\ UNCHANGED <<config, target, pc, auto, locals, runs, rows_before, prev_header>>

\* ------------------------------------------------------------ insert_data
\* the registry looked up leniently: an unknown name keeps the handle that
\* was current and the call goes on whenever one is set
EnterLenient(c, size) ==
    /\ runs' = runs + 1
    /\ rows_before' = rows_before + Len(source)
    /\ prev_header' = origin_header
    /\ col_name' = c
    /\ buffer_size' = size
    /\ target_col_name' = c
    /\ origin_header' = <<>>
    /\ header' = <<>>
    /\ field_allowed' = <<>>
    /\ buffer' = <<>>
    /\ counter' = 0
    /\ source' = <<>>
    /\ docs' = <<>>
    /\ batches' = <<>>
    /\ drops' = <<>>
    /\ warned' = {}
    /\ target_col_object' = IF c \in Registered THEN c ELSE target_col_object
    /\ IF target_col_object' # None
       THEN error' = NoError /\ pc' = "clear"
       ELSE error' = Exc("ValueError", {}, {}) /\ pc' = "idle"
    /\ UNCHANGED <<config, store>>

\* lines 115-118: a new call; its locals are not bound yet
Enter(c, size) ==
    /\ runs' = runs + 1
    /\ rows_before' = rows_before + Len(source)
    /\ prev_header' = origin_header
    /\ col_name' = c
    /\ buffer_size' = size
    /\ target_col_name' = c
    /\ origin_header' = <<>>
    /\ header' = <<>>
    /\ field_allowed' = <<>>
    /\ buffer' = <<>>
    /\ counter' = 0
    /\ source' = <<>>
    /\ docs' = <<>>
    /\ batches' = <<>>
    /\ drops' = <<>>
    /\ warned' = {}
    /\ IF c \in Registered
       THEN /\ target_col_object' = c
            /\ error' = NoError
            /\ pc' = "clear"
       ELSE /\ UNCHANGED target_col_object
            /\ error' = Exc("KeyError", {}, {})
            /\ pc' = "idle"
    /\ UNCHANGED <<config, store>>

insert_data(c, size) ==
    /\ CallerIdle
    /\ Enter(c, size)
    /\ UNCHANGED auto

\* every registered collection emptied, not the target alone
ClearTargetAll ==
    /\ pc = "clear"
    /\ IF db_check
       THEN /\ store' = [c \in Registered |-> EmptyBag]
            /\ drops' = Append(drops, target_col_object)
       ELSE UNCHANGED <<store, drops>>
    /\ pc' = "open"
    /\ UNCHANGED <<config, target, auto, col_name, buffer_size, origin_header,
                   header, field_allowed, buffer, counter, source, docs,
                   batches, error, warned, runs, rows_before, prev_header>>

\* lines 121-122
ClearTarget ==
    /\ pc = "clear"
    /\ IF db_check
       THEN /\ store' = [store EXCEPT ![target_col_object] = EmptyBag]
            /\ drops' = Append(drops, target_col_object)
       ELSE UNCHANGED <<store, drops>>
    /\ pc' = "open"
    /\ UNCHANGED <<config, target, auto, col_name, buffer_size, origin_header,
                   header, field_allowed, buffer, counter, source, docs,
                   batches, error, warned, runs, rows_before, prev_header>>

\* lines 125-129: the file opens and its first record is read
ReadHeader ==
    /\ pc = "open"
    /\ \E h \in Headers :
        /\ origin_header' = h
        /\ header' = h
        /\ field_allowed' = Range0(Len(h))
    /\ pc' = "project"
    /\ UNCHANGED <<config, target, store, auto, col_name, buffer_size, buffer,
                   counter, source, docs, batches, drops, error, warned, runs, rows_before, prev_header>>

\* lines 125-128: open() raises, or next() raises on a file with no record
OpenFails ==
    /\ pc = "open"
    /\ \E t \in {"FileNotFoundError", "StopIteration"} : Raise(Exc(t, {}, {}))
    /\ UNCHANGED <<config, target, store, locals, runs, rows_before, prev_header>>

\* the projection resolved against the header of the run before, once
\* there is one
ResolveFieldsLeaking ==
    /\ pc = "project"
    /\ LET h == IF runs > 1 THEN prev_header ELSE origin_header IN
       IF FieldMissing(h, selected_fields, removed_fields)
       THEN /\ warned' = FieldWarning(h, selected_fields, removed_fields)
            /\ Raise(FieldError(h, selected_fields, removed_fields))
            /\ UNCHANGED <<header, field_allowed, buffer, counter>>
       ELSE /\ field_allowed' = ResolveIndices(h, selected_fields, removed_fields)
            /\ header' = ProjectHeader(h, field_allowed')
            /\ buffer' = <<>>
            /\ counter' = 0
            /\ pc' = "stream"
            /\ UNCHANGED <<auto, error, warned>>
    /\ UNCHANGED <<config, target, store, col_name, buffer_size, origin_header,
                   source, docs, batches, drops, runs, rows_before, prev_header>>

\* lines 130-143
ResolveFields ==
    /\ pc = "project"
    /\ IF FieldMissing(origin_header, selected_fields, removed_fields)
       THEN /\ warned' = FieldWarning(origin_header, selected_fields, removed_fields)
            /\ Raise(FieldError(origin_header, selected_fields, removed_fields))
            /\ UNCHANGED <<header, field_allowed, buffer, counter>>
       ELSE /\ field_allowed' = ResolveIndices(origin_header, selected_fields, removed_fields)
            /\ header' = ProjectHeader(origin_header, field_allowed')
            /\ buffer' = <<>>
            /\ counter' = 0
            /\ pc' = "stream"
            /\ UNCHANGED <<auto, error, warned>>
    /\ UNCHANGED <<config, target, store, col_name, buffer_size, origin_header,
                   source, docs, batches, drops, runs, rows_before, prev_header>>

\* a row that does not fit skipped instead of raising
ReadRowSkipping ==
    /\ pc = "stream"
    /\ rows_before + Len(source) < MaxRows
    /\ \E len \in RowLens(origin_header) :
        LET row == Row(Len(source) + 1, len) IN
        /\ source' = Append(source, row)
        /\ counter' = counter + 1
        /\ IF RowFits(row, field_allowed)
           THEN LET drug == Transform(row, header, field_allowed) IN
                /\ docs' = Append(docs, drug)
                /\ buffer' = Append(buffer, drug)
                /\ pc' = IF BufferFull(buffer', buffer_size) THEN "flush" ELSE "stream"
           ELSE UNCHANGED <<docs, buffer, pc>>
    /\ UNCHANGED <<config, target, store, auto, error, col_name, buffer_size,
                   origin_header, header, field_allowed, batches, drops, warned,
                   runs, rows_before, prev_header>>

\* the buffered documents written out before the error of a bad row leaves
ReadRowFlushOnError ==
    /\ pc = "stream"
    /\ rows_before + Len(source) < MaxRows
    /\ \E len \in RowLens(origin_header) :
        LET row == Row(Len(source) + 1, len) IN
        /\ source' = Append(source, row)
        /\ counter' = counter + 1
        /\ IF RowFits(row, field_allowed)
           THEN LET drug == Transform(row, header, field_allowed) IN
                /\ docs' = Append(docs, drug)
                /\ buffer' = Append(buffer, drug)
                /\ pc' = IF BufferFull(buffer', buffer_size) THEN "flush" ELSE "stream"
                /\ UNCHANGED <<auto, error, store, batches>>
           ELSE /\ Raise(RowError(counter'))
                /\ IF buffer # <<>>
                   THEN /\ batches' = Append(batches, buffer)
                        /\ store' = [store EXCEPT ![target_col_object] = BagAddAll(@, buffer)]
                   ELSE UNCHANGED <<store, batches>>
                /\ UNCHANGED <<docs, buffer>>
    /\ UNCHANGED <<config, target, col_name, buffer_size, origin_header,
                   header, field_allowed, drops, warned, runs, rows_before, prev_header>>

\* lines 144-148: the next row is read, transformed and buffered
ReadRow ==
    /\ pc = "stream"
    /\ rows_before + Len(source) < MaxRows
    /\ \E len \in RowLens(origin_header) :
        LET row == Row(Len(source) + 1, len) IN
        /\ source' = Append(source, row)
        /\ counter' = counter + 1
        /\ IF RowFits(row, field_allowed)
           THEN LET drug == Transform(row, header, field_allowed) IN
                /\ docs' = Append(docs, drug)
                /\ buffer' = Append(buffer, drug)
                /\ pc' = IF BufferFull(buffer', buffer_size) THEN "flush" ELSE "stream"
                /\ UNCHANGED <<auto, error>>
           ELSE /\ Raise(RowError(counter'))
                /\ UNCHANGED <<docs, buffer>>
    /\ UNCHANGED <<config, target, store, col_name, buffer_size, origin_header,
                   header, field_allowed, batches, drops, warned, runs, rows_before, prev_header>>

\* bulk_write(requests, ordered=False) on the target collection: it inserts
\* every document, or raises after inserting only some of them
BulkWrite(written) ==
    /\ batches' = Append(batches, buffer)
    /\ store' = [store EXCEPT ![target_col_object] =
                    BagAddAll(@, [k \in 1..written |-> buffer[k]])]

\* the buffer not cleared after the write
FlushBufferNoClear ==
    /\ pc = "flush"
    /\ \/ /\ BulkWrite(Len(buffer))
          /\ pc' = "stream"
          /\ UNCHANGED <<auto, error>>
       \/ /\ \E n \in 0..(Len(buffer) - 1) : BulkWrite(n)
          /\ Raise(Exc("BulkWriteError", {}, {}))
    /\ UNCHANGED <<config, target, col_name, buffer_size, origin_header, buffer,
                   header, field_allowed, counter, source, docs, drops, warned, runs, rows_before, prev_header>>

\* a failed write recorded and the loop going on, the batch kept for a retry
FlushBufferContinues ==
    /\ pc = "flush"
    /\ \/ /\ BulkWrite(Len(buffer))
          /\ buffer' = <<>>
          /\ UNCHANGED error
       \/ /\ \E n \in 0..(Len(buffer) - 1) : BulkWrite(n)
          /\ error' = Exc("BulkWriteError", {}, {})
          /\ UNCHANGED buffer
    /\ pc' = "stream"
    /\ UNCHANGED <<config, target, auto, col_name, buffer_size, origin_header,
                   header, field_allowed, counter, source, docs, drops, warned, runs, rows_before, prev_header>>

\* lines 149-151
FlushBuffer ==
    /\ pc = "flush"
    /\ \/ /\ BulkWrite(Len(buffer))
          /\ buffer' = <<>>
          /\ pc' = "stream"
          /\ UNCHANGED <<auto, error>>
       \/ /\ \E n \in 0..(Len(buffer) - 1) : BulkWrite(n)
          /\ Raise(Exc("BulkWriteError", {}, {}))
          /\ UNCHANGED buffer
    /\ UNCHANGED <<config, target, col_name, buffer_size, origin_header,
                   header, field_allowed, counter, source, docs, drops, warned, runs, rows_before, prev_header>>

\* line 144: the reader is exhausted
EndOfRows ==
    /\ pc = "stream"
    /\ pc' = "final"
    /\ UNCHANGED <<config, target, store, auto, locals, error, runs, rows_before, prev_header>>

\* lines 153-157
FinalFlush ==
    /\ pc = "final"
    /\ IF buffer # <<>>
       THEN \/ /\ BulkWrite(Len(buffer))
               /\ pc' = "idle"
               /\ UNCHANGED <<auto, error>>
            \/ /\ \E n \in 0..(Len(buffer) - 1) : BulkWrite(n)
               /\ Raise(Exc("BulkWriteError", {}, {}))
       ELSE /\ pc' = "idle"
            /\ UNCHANGED <<auto, error, batches, store>>
    /\ UNCHANGED <<config, target, col_name, buffer_size, origin_header, header,
                   field_allowed, buffer, counter, source, docs, drops, warned, runs, rows_before, prev_header>>

\* ------------------------------------------------------------ auto_insert
\* line 166: the loop over self.collections.keys() starts
auto_insert ==
    /\ CallerIdle
    /\ auto' = CollectionOrder
    /\ error' = NoError
    /\ UNCHANGED <<config, target, store, pc, locals, runs, rows_before, prev_header>>

\* line 167: the next collection, with the default buffer_size
AutoNext ==
    /\ pc = "idle"
    /\ auto # <<>>
    /\ Enter(Head(auto), DefaultBufferSize)
    /\ auto' = Tail(auto)

Next ==
    \/ \E fn \in FieldLists, fr \in FieldLists : set_fields(fn, fr)
    \/ \E c \in ColNames : set_target_col(c)
    \/ \E c \in ColNames \cup {""} : assure_empty(c)
    \/ \E c \in ColNames, size \in 1..MaxBufferSize : insert_data(c, size)
    \/ ClearTarget
    \/ ReadHeader
    \/ OpenFails
    \/ ResolveFields
    \/ ReadRow
    \/ FlushBuffer
    \/ EndOfRows
    \/ FinalFlush
    \/ auto_insert
    \/ AutoNext

Spec == Init /\ [][Next]_vars


\* ===================================================================== claims
\* the last insert_data call returned normally
Completed == pc = "idle" /\ runs > 0 /\ error = NoError
\* the projection of the current run has been resolved (line 140 was reached)
Resolved == pc \in {"stream", "flush", "final"} \/ source # <<>>
Unique(s) == \A i, j \in DOMAIN s : s[i] = s[j] => i = j
CeilDiv(n, d) == (n + d - 1) \div d

\* C1: a completed insert_data run over N data rows with buffer size B >= 1
\* has issued exactly ceil(N/B) bulk writes; every one but the last carries
\* B documents and the last carries the remainder; the batches concatenated
\* in the order issued are the transformed rows in source order.
C1_Batching ==
    Completed =>
        LET N == Len(source)
            B == buffer_size
            W == Len(batches)
        IN /\ Len(docs) = N
           /\ \A k \in 1..N : docs[k] = Transform(source[k], header, field_allowed)
           /\ W = CeilDiv(N, B)
           /\ \A k \in 1..(W - 1) : Len(batches[k]) = B
           /\ W > 0 => Len(batches[W]) = N - B * (W - 1)
           /\ Flatten(batches) = docs

C1_Witness ==
    /\ Completed
    /\ buffer_size = 2
    /\ Len(source) = 3
    /\ Len(batches) = 2
    /\ Len(batches[1]) = 2
    /\ Len(batches[2]) = 1

\* C2: selected_fields and removed_fields are never both non-empty.
C2_NeverBoth == ~(selected_fields # <<>> /\ removed_fields # <<>>)

\* C3: a set_fields call with both lists non-empty raises (SyntaxError) and
\* leaves selected_fields and removed_fields as they were.
C3_Exclusive ==
    [][\A fn \in FieldLists, fr \in FieldLists :
          (fn # <<>> /\ fr # <<>> /\ set_fields(fn, fr)) =>
              /\ error'.type = "SyntaxError"
              /\ selected_fields' = selected_fields
              /\ removed_fields' = removed_fields]_vars

C3_Witness ==
    /\ error.type = "SyntaxError"
    /\ selected_fields # <<>>


\* the names of a list the header lacks
MissingNames(h, names) == {names[k] : k \in Missing(h, names)}
ActiveNow == ActiveFields(selected_fields, removed_fields)

\* C4: when a name of the active projection is absent from the header the
\* run fails before any data row is read and before any bulk write.
C4_FailsBeforeRows ==
    MissingNames(origin_header, ActiveNow) # {} =>
        /\ source = <<>>
        /\ docs = <<>>
        /\ batches = <<>>

RECURSIVE Dedup(_)
Dedup(s) ==
    IF s = <<>> THEN <<>>
    ELSE LET front == SubSeq(s, 1, Len(s) - 1)
             last == s[Len(s)]
         IN IF InList(last, front) THEN Dedup(front) ELSE Append(Dedup(front), last)

\* the include-list is in force, against a header of unique names that has
\* every name of it
IncludeCase ==
    /\ Resolved
    /\ selected_fields # <<>>
    /\ Unique(origin_header)
    /\ MissingNames(origin_header, selected_fields) = {}

\* the value of every key of a document is the cell of the row under the
\* header column of that name
ValuesByName(doc, row) ==
    \A k \in DOMAIN doc : doc[k][2] = At0(row, ListIndex(origin_header, doc[k][1]))

\* C6 as stated: the resolved indices mapped back through the header give
\* the include-list in its own order, and the keys of every document are
\* exactly the include-list in that order, each value from the same-named
\* column.
C6_IncludeOrder ==
    IncludeCase =>
        /\ ProjectHeader(origin_header, field_allowed) = selected_fields
        /\ \A i \in DOMAIN docs :
              /\ DictKeys(docs[i]) = selected_fields
              /\ ValuesByName(docs[i], source[i])

\* C6 as the code has it: the same, the keys of a document being the
\* include-list with a repeated name kept at its first place only.
C6_IncludeOrderDedup ==
    IncludeCase =>
        /\ ProjectHeader(origin_header, field_allowed) = selected_fields
        /\ header = selected_fields
        /\ \A i \in DOMAIN docs :
              /\ DictKeys(docs[i]) = Dedup(selected_fields)
              /\ ValuesByName(docs[i], source[i])

C6_Witness ==
    /\ IncludeCase
    /\ selected_fields = <<"b", "a">>
    /\ origin_header = <<"a", "b", "c">>
    /\ Len(docs) >= 2

\* C7: with no include-list and an exclude-list whose names are all in a
\* header of unique names, the retained header is the header without the
\* excluded names, in header order, and no document has an excluded key.
C7_ExcludeOrder ==
    (/\ Resolved
     /\ selected_fields = <<>>
     /\ removed_fields # <<>>
     /\ Unique(origin_header)
     /\ MissingNames(origin_header, removed_fields) = {}) =>
        LET Kept(name) == ~InList(name, removed_fields) IN
        /\ header = SelectSeq(origin_header, Kept)
        /\ ProjectHeader(origin_header, field_allowed) = header
        /\ \A i \in DOMAIN docs :
              /\ DictKeys(docs[i]) = header
              /\ \A k \in DOMAIN removed_fields : ~DictHas(docs[i], removed_fields[k])

C7_Witness ==
    /\ Resolved
    /\ selected_fields = <<>>
    /\ removed_fields = <<"b">>
    /\ origin_header = <<"a", "b", "c">>
    /\ header = <<"a", "c">>
    /\ Len(docs) >= 2


\* neither list is set: the identity projection
IdentityCase == Resolved /\ selected_fields = <<>> /\ removed_fields = <<>>

\* the document of row i pairs header[k] with row[k] for every k, in header
\* order, and read back field by field it gives the row
RoundTrip(i) ==
    /\ i <= Len(docs)
    /\ DictKeys(docs[i]) = origin_header
    /\ [k \in DOMAIN origin_header |-> DictGet(docs[i], origin_header[k])] = source[i]

\* C8 as stated: under the identity projection every row with as many
\* fields as the header gives a document that reads back as the row.
C8_RoundTrip ==
    IdentityCase =>
        \A i \in DOMAIN source :
            Len(source[i]) = Len(origin_header) => RoundTrip(i)

\* C8 as the code has it: the same for a header of unique names.
C8_RoundTripUnique ==
    (IdentityCase /\ Unique(origin_header)) =>
        \A i \in DOMAIN source :
            Len(source[i]) = Len(origin_header) => RoundTrip(i)

\* a row of full length with an empty cell went through
C8_Witness ==
    /\ IdentityCase
    /\ origin_header = <<"a", "b", "c">>
    /\ Len(docs) >= 2
    /\ \E i \in DOMAIN source :
          /\ Len(source[i]) = 3
          /\ \E k \in 1..3 : source[i][k] = 0

\* the rows of the current run that are too short for the projection
ShortRows == {i \in DOMAIN source : ~RowFits(source[i], field_allowed)}

LongRows == {i \in DOMAIN source : Len(source[i]) > Len(origin_header)}

\* C10 as stated: a row longer than the header is an error, no document is
\* emitted for it.
C10_LongRowFails ==
    \A i \in LongRows : i > Len(docs) /\ error # NoError /\ pc = "idle"

\* C10 as the code has it: a row longer than the header is accepted; the
\* fields past the header are dropped and the document is that of the row
\* cut to the length of the header.
C10_LongRowAccepted ==
    \A i \in LongRows :
        /\ i <= Len(docs)
        /\ docs[i] = Transform(SubSeq(source[i], 1, Len(origin_header)), header, field_allowed)

C10_Witness ==
    /\ Completed
    /\ origin_header = <<"a", "b">>
    /\ \E i \in LongRows : i <= Len(docs) /\ Len(docs[i]) = 2
    /\ batches # <<>>

\* C11: when the first record of the file is empty the run fails before any
\* data row is transformed and before any document is written.
C11_EmptyHeaderFails ==
    (Resolved /\ origin_header = <<>>) =>
        /\ source = <<>>
        /\ docs = <<>>
        /\ batches = <<>>

\* a step that issues a bulk write which succeeds
WriteSucceeds == Len(batches') = Len(batches) + 1 /\ error' = NoError

\* C12 as stated: every successful bulk insert, by the threshold or by the
\* final flush, leaves the buffer empty.
C12_BufferEmptyAfterWrite ==
    [][WriteSucceeds => buffer' = <<>>]_vars

\* C12 as the code has it: a successful threshold flush leaves the buffer
\* empty; the final flush writes the buffer without clearing it, is the last
\* step of the run, and no further write follows it in the run.
C12_ThresholdClears ==
    [][/\ (WriteSucceeds /\ pc = "flush") => (buffer' = <<>> /\ pc' = "stream")
       /\ (WriteSucceeds /\ pc = "final") => (buffer' = buffer /\ buffer # <<>> /\ pc' = "idle")
       /\ WriteSucceeds => pc \in {"flush", "final"}
       /\ (pc = "idle" /\ runs' = runs) => batches' = batches]_vars

C12_Witness ==
    /\ Completed
    /\ Len(batches) = 2
    /\ buffer # <<>>
    /\ buffer = batches[2]

\* C13: insert_data and set_target_col with a name that is not registered
\* raise (KeyError) at once and the call is over (pc is "idle"): no
\* collection is dropped, no file is opened and no document is written.
C13_UnknownCollection ==
    [][\A c \in ColNames \ Registered :
          (set_target_col(c) \/ \E size \in 1..MaxBufferSize : insert_data(c, size)) =>
              /\ error'.type = "KeyError"
              /\ pc' = "idle"
              /\ store' = store
              /\ drops' = <<>>
              /\ batches' = <<>>
              /\ origin_header' = <<>>]_vars

C13_Witness ==
    /\ error.type = "KeyError"
    /\ runs = 1
    /\ col_name = "zz"
    /\ db_check
    /\ target_col_object = "c1"
    /\ pc = "idle"

\* bag a is contained in bag b
BagLeq(a, b) == \A d \in DOMAIN a : d \in DOMAIN b /\ a[d] <= b[d]
BagOf(s) == BagAddAll(EmptyBag, s)

\* C14: a failed bulk insert ends the run at once: the error leaves
\* insert_data (and auto_insert), the failed batch was issued once and is the
\* last write of the run, no row was read after it, and the documents of the
\* earlier batches are still in the collection.
C14_WriteFailureAborts ==
    error.type = "BulkWriteError" =>
        LET W == Len(batches) IN
        /\ pc = "idle"
        /\ auto = <<>>
        /\ W >= 1
        /\ batches[W] = buffer
        /\ Flatten(batches) = docs
        /\ Len(docs) = Len(source)
        /\ BagLeq(BagOf(Flatten(SubSeq(batches, 1, W - 1))), store[target_col_object])
        /\ BagLeq(store[target_col_object], BagOf(docs))
        /\ store[target_col_object] # BagOf(docs)

C14_Witness ==
    /\ error.type = "BulkWriteError"
    /\ Len(batches) = 2
    /\ Len(source) = 2
    /\ store[target_col_object] = BagOf(batches[1])

\* C15: the column indices and the projected header a run uses are resolved
\* from the header of that run's own file, whatever the run before read, and
\* so are its documents; a run fails for an absent field exactly when its
\* own header lacks it.
C15_OwnHeader ==
    /\ Resolved =>
          LET fa == ResolveIndices(origin_header, selected_fields, removed_fields) IN
          /\ ~FieldMissing(origin_header, selected_fields, removed_fields)
          /\ field_allowed = fa
          /\ header = ProjectHeader(origin_header, fa)
          /\ \A i \in DOMAIN docs :
                docs[i] = Transform(source[i], ProjectHeader(origin_header, fa), fa)
    /\ error.type = "ValueError" =>
          FieldMissing(origin_header, selected_fields, removed_fields)

\* the second run of auto_insert, under a projection, over a file whose
\* header is not that of the first file
C15_Witness ==
    /\ runs = 2
    /\ Resolved
    /\ selected_fields = <<"b", "a">>
    /\ prev_header = <<"a", "b">>
    /\ origin_header = <<"a", "b", "c">>
    /\ docs # <<>>
    /\ store["c1"] # EmptyBag

\* C16: in a run the target collection is dropped once when db_check is
\* true and never when it is false.  The drop is the step right after the
\* target is selected: the header is read, the projection resolved and the
\* batches written only after it, and no later step of the run drops
\* anything.  The drop empties the collection of the run and leaves every
\* other collection as it was.
C16_DropOnce ==
    [][/\ pc = "clear" =>
            /\ pc' = "open"
            /\ source = <<>> /\ batches = <<>> /\ drops = <<>>
            /\ IF db_check
               THEN /\ drops' = <<col_name>>
                    /\ store' = [store EXCEPT ![col_name] = EmptyBag]
               ELSE /\ drops' = <<>>
                    /\ store' = store
       /\ pc \in {"open", "project", "stream", "flush", "final"} =>
            /\ drops' = drops
            /\ drops = (IF db_check THEN <<col_name>> ELSE <<>>)
            /\ \A c \in Registered :
                  IF c = col_name THEN BagLeq(store[c], store'[c])
                  ELSE store'[c] = store[c]
       /\ pc' = "project" => pc = "open"]_vars

\* the second run of auto_insert has dropped its own collection and the
\* documents of the first collection are still there
C16_Witness ==
    /\ runs = 2
    /\ db_check
    /\ pc = "stream"
    /\ drops = <<"c2">>
    /\ store["c2"] = EmptyBag
    /\ store["c1"] # EmptyBag

\* C17: the buffer never holds more than buffer_size documents, and it
\* holds fewer whenever the next row is about to be read: a buffer that
\* reaches buffer_size is written as a whole and cleared before the loop
\* goes on.
C17_BufferBounded ==
    runs > 0 =>
        /\ Len(buffer) <= buffer_size
        /\ pc \in {"stream", "final"} => Len(buffer) < buffer_size
        /\ pc = "flush" => Len(buffer) = buffer_size

C17_Witness ==
    /\ pc = "stream"
    /\ buffer_size = 2
    /\ Len(batches) = 1
    /\ Len(buffer) = 1

\* C18: when a run with buffer size B aborts on the faulty row k, the
\* bulk writes of the run carry exactly the documents of rows
\* 1 .. B*floor((k-1)/B), in whole batches; the (k-1) mod B documents
\* buffered before row k are not written and there is no final flush.
C18_PrefixWritten ==
    error.type = "IndexError" =>
        LET k == Len(source)
            B == buffer_size
            full == (k - 1) \div B
        IN /\ Len(docs) = k - 1
           /\ Len(batches) = full
           /\ \A w \in DOMAIN batches : Len(batches[w]) = B
           /\ Flatten(batches) = SubSeq(docs, 1, B * full)
           /\ buffer = SubSeq(docs, B * full + 1, k - 1)
           /\ Len(buffer) = (k - 1) % B
           /\ BagLeq(BagOf(Flatten(batches)), store[target_col_object])
           /\ \A d \in DOMAIN BagOf(buffer) :
                 d \in DOMAIN store[target_col_object] =>
                     store[target_col_object][d] <= BagOf(Flatten(batches))[d]
           /\ pc = "idle"

C18_Witness ==
    /\ error.type = "IndexError"
    /\ buffer_size = 2
    /\ Len(source) = 3
    /\ Len(batches) = 1
    /\ store[target_col_object] = BagOf(batches[1])

\* C19: auto_insert runs insert_data for the registered collections in
\* registration order, one after the other: the run of the next collection
\* starts only when the run before has returned, a run changes no collection
\* but its own, and when a run raises the error leaves auto_insert, which
\* starts no further run: nothing is dropped or written after it.
C19_AutoSequential ==
    [][/\ (runs' = runs + 1 /\ auto # <<>>) =>
            /\ pc = "idle"
            /\ error = NoError
            /\ col_name' = CollectionOrder[runs + 1]
            /\ auto' = SubSeq(CollectionOrder, runs + 2, Len(CollectionOrder))
       /\ pc # "idle" =>
            /\ runs' = runs
            /\ \A c \in Registered \ {col_name} : store'[c] = store[c]
       /\ (pc # "idle" /\ error' # NoError) =>
            /\ auto' = <<>>
            /\ pc' = "idle"
       /\ (pc = "idle" /\ auto = <<>> /\ runs > 0) => FALSE]_vars

\* the first collection was ingested, the run of the second one failed and
\* the documents of the first are still there
C19_Witness ==
    /\ runs = 2
    /\ col_name = "c2"
    /\ error.type = "IndexError"
    /\ pc = "idle"
    /\ store["c1"] # EmptyBag
    /\ store["c2"] = EmptyBag

\* C20: whenever target_col_object is set it is the handle registered under
\* target_col_name, and a call that fails on an unregistered name leaves
\* target_col_name and target_col_object as they were.
C20_TargetConsistent ==
    target_col_object # None => target_col_object = target_col_name

=============================================================================
